---- MODULE Spec2Model ----
(***************************************************************************)
(* State-machine model of subhunter.py: the session gate, the filter       *)
(* chain, the like/follow dispatch under per-pass quotas, the micro-break, *)
(* the pagination of one query, one pass (run_once) and the outer loop     *)
(* (main).                                                                 *)
(***************************************************************************)
EXTENDS Integers, Sequences, FiniteSets, TLC

\* ------------------------------------------------------------------ bounds
\* largest per-kind cap (like_per_day, follow_per_day) a configuration draws
MaxCap == 2
\* largest number of candidates on one result page
MaxPage == 2
\* number of queries in the configured list
NumQueries == 2
\* largest number of session windows in a drawn configuration
MaxBlocks == 2
\* the micro_break_after threshold of the configurations that enable it
BreakAfter == 2

\* ------------------------------------------------------------ Python values
\* A dynamically typed value: None, an int, a str held whole (identifiers) or a
\* str held as its sequence of characters (texts, language codes).
NoneV == [k |-> "None"]
IntV(n) == [k |-> "int", v |-> n]
StrV(s) == [k |-> "str", s |-> s]
TextV(cs) == [k |-> "text", s |-> cs]

\* bool(x) of a value
Truthy(x) ==
  CASE x.k = "None" -> FALSE
    [] x.k = "int" -> x.v # 0
    [] x.k = "str" -> x.s # ""
    [] x.k = "text" -> x.s # <<>>

\* str(x) of an identifier value
Str(x) ==
  CASE x.k = "None" -> "None"
    [] x.k = "int" -> ToString(x.v)
    [] x.k = "str" -> x.s

Min(a, b) == IF a <= b THEN a ELSE b

\* Python's `a or b`: a when a is truthy, else b
PyOr(a, b) == IF Truthy(a) THEN a ELSE b

\* ------------------------------------------------------------ time of day
\* datetime.time values compare by (hour, minute): minutes since midnight
HHMM(h, m) == h * 60 + m

\* ------------------------------------------------------------------ filters
\* the for loop over blocks, from index i on: the first block holding t returns True
RECURSIVE ScanBlocks(_, _, _)
ScanBlocks(t, blocks, i) ==
  IF i > Len(blocks) THEN FALSE
  ELSE IF blocks[i][1] <= blocks[i][2]
       THEN IF blocks[i][1] <= t /\ t <= blocks[i][2]
            THEN TRUE ELSE ScanBlocks(t, blocks, i + 1)
       ELSE IF t >= blocks[i][1] \/ t <= blocks[i][2]
            THEN TRUE ELSE ScanBlocks(t, blocks, i + 1)

\* a plausible slip: the night-off test made after the session windows
within_blocks_NightOffLast(t, blocks, night_off) ==
  IF blocks = <<>> THEN TRUE
  ELSE IF ScanBlocks(t, blocks, 1) THEN TRUE
  ELSE FALSE

\* a plausible slip: the window across midnight read as an empty window
within_blocks_NoWraparound(t, blocks, night_off) ==
  IF night_off # <<>> /\ night_off[1] <= t /\ t <= night_off[2] THEN FALSE
  ELSE IF blocks = <<>> THEN TRUE
  ELSE \E i \in 1..Len(blocks) : blocks[i][1] <= t /\ t <= blocks[i][2]

\* within_blocks(now, blocks, night_off); night_off = <<>> is None
within_blocks(t, blocks, night_off) ==
  IF night_off # <<>> /\
     (IF night_off[1] <= night_off[2]
      THEN night_off[1] <= t /\ t <= night_off[2]
      ELSE t >= night_off[1] \/ t <= night_off[2])
  THEN FALSE
  ELSE IF blocks = <<>> THEN TRUE
  ELSE ScanBlocks(t, blocks, 1)

\* ---- text, as a sequence of one-character strings
Whitespace == {" ", "\n", "\t"}

RECURSIVE LStrip(_)
LStrip(s) == IF s # <<>> /\ Head(s) \in Whitespace THEN LStrip(Tail(s)) ELSE s

RECURSIVE RStrip(_)
RStrip(s) ==
  IF s # <<>> /\ s[Len(s)] \in Whitespace THEN RStrip(SubSeq(s, 1, Len(s) - 1)) ELSE s

\* str.strip()
Strip(s) == RStrip(LStrip(s))

\* str.startswith(p)
StartsWith(s, p) == Len(s) >= Len(p) /\ SubSeq(s, 1, Len(p)) = p

\* str.replace("\n", " ")
ReplaceNewlines(s) == [i \in 1..Len(s) |-> IF s[i] = "\n" THEN " " ELSE s[i]]

\* str.lower() on the letters the candidates use
LowerChar(c) ==
  CASE c = "R" -> "r" [] c = "T" -> "t" [] c = "Q" -> "q" [] c = "S" -> "s"
    [] c = "P" -> "p" [] c = "A" -> "a" [] c = "M" -> "m" [] c = "E" -> "e"
    [] c = "N" -> "n" [] c = "F" -> "f" [] OTHER -> c
Lower(s) == [i \in 1..Len(s) |-> LowerChar(s[i])]

\* `bad in low`: bad occurs as a substring of low
Contains(low, bad) ==
  \E i \in 1..(Len(low) - Len(bad) + 1) : SubSeq(low, i, i + Len(bad) - 1) = bad

\* a plausible slip: the quote prefix forgotten
is_rt_text_RetweetOnly(text) == StartsWith(Strip(text), <<"R", "T", " ", "@">>)

is_rt_text(text) ==
  LET s == Strip(text)
  IN StartsWith(s, <<"R", "T", " ", "@">>) \/ StartsWith(s, <<"Q", "T", " ", "@">>)

is_reply_text(text) == StartsWith(Strip(text), <<"@">>)

\* ok_lang on a str or None; lang.lower() of another type raises (LangRaises)
ok_lang(lang, allowed) ==
  IF ~Truthy(lang) THEN TRUE ELSE Lower(lang.s) \in allowed

\* a truthy lang that is no str has no lower(): AttributeError out of ok_lang
LangRaises(lang) == Truthy(lang) /\ lang.k # "text"

\* a parsed creation timestamp, by its age in hours at the time of the check
TimeV(age) == [k |-> "time", age |-> age]

\* created_at: None, a str that fromisoformat rejects, or a timestamp
ok_age(created_at, max_age_hours) ==
  IF created_at.k = "None" THEN TRUE
  ELSE IF created_at.k # "time" THEN TRUE
  ELSE created_at.age <= max_age_hours

\* ok_author: int() of None or of a non-numeric str raises, and that passes
ok_author(user, min_f, max_f) ==
  LET followers == PyOr(user.followers_count, user.followers)
  IN IF followers.k # "int" THEN TRUE
     ELSE min_f <= followers.v /\ followers.v <= max_f

ok_keywords(text, blacklist) ==
  LET low == Lower(text)
  IN ~ \E bad \in blacklist : Contains(low, bad)

\* ------------------------------------------------------- the search feed
\* The candidates the platform can return, by identifier.
NoUser == [present |-> FALSE]
User(fc, uid) ==
  [present |-> TRUE, followers_count |-> fc, followers |-> NoneV,
   id |-> uid, id_str |-> NoneV]

TextHello == <<"h", "e", "l", "l", "o">>
TextRT == <<"R", "T", " ", "@", "x", " ", "h", "e", "l", "l", "o">>
TextQT == <<"Q", "T", " ", "@", "x", " ", "h", "e", "l", "l", "o">>
TextReply == <<"@", "x", " ", "h", "e", "l", "l", "o">>
LangEn == TextV(<<"e", "n">>)
LangFr == TextV(<<"f", "r">>)

Plain(id, user) ==
  [id |-> StrV(id), full_text |-> TextV(TextHello), text |-> NoneV,
   lang |-> LangEn, created_at |-> TimeV(1), user |-> user]

Tweet(id) ==
  CASE id = "a" -> Plain("a", User(IntV(500), StrV("u1")))
    [] id = "b" -> Plain("b", User(NoneV, StrV("u2")))
    [] id = "c" -> Plain("c", User(IntV(0), StrV("")))
    [] id = "d" -> [Plain("d", User(IntV(500), StrV("u1"))) EXCEPT !.full_text = TextV(TextRT)]
    [] id = "e" -> [Plain("e", User(IntV(500), StrV("u1"))) EXCEPT !.lang = LangFr]
    [] id = "f" -> Plain("f", User(IntV(50), StrV("u4")))
    [] id = "g" -> [Plain("g", User(IntV(500), StrV("u1"))) EXCEPT !.full_text = TextV(TextQT)]
    [] id = "h" -> [Plain("h", User(IntV(500), StrV("u1"))) EXCEPT
                      !.full_text = TextV(TextReply)]
    [] id = "x" -> [Plain("x", User(IntV(500), StrV("u5"))) EXCEPT !.lang = IntV(1)]

\* the candidates served to the runs that vary the settings
RunFeed == {"a", "b", "f", "x"}
\* the candidates served to the runs that vary the candidates, in two feeds
FilterFeeds == {{"a", "c", "d", "e"}, {"a", "f", "g", "h"}}
FilterFeed == UNION FilterFeeds

RECURSIVE SeqsUpTo(_, _)
SeqsUpTo(S, n) ==
  IF n = 0 THEN {<<>>}
  ELSE LET shorter == SeqsUpTo(S, n - 1)
       IN shorter \cup {Append(q, x) : q \in {r \in shorter : Len(r) = n - 1}, x \in S}

NoRepeat(q) == \A i, j \in 1..Len(q) : i # j => q[i] # q[j]

\* the non-empty result pages: up to MaxPage distinct candidates of ids
Pages(ids) == {q \in SeqsUpTo(ids, MaxPage) : q # <<>> /\ NoRepeat(q)}

\* ------------------------------------------------------------- settings
Times == {HHMM(2, 0), HHMM(6, 0), HHMM(12, 0), HHMM(23, 30), HHMM(23, 45)}
NoTime == 0 - 1

\* load_settings with an empty [filters]/[actions]/[limits] apart from the
\* values a scenario sets
BaseSettings ==
  [min_followers |-> 100, max_followers |-> 1000,
   languages |-> {<<"e", "n">>}, max_age_hours |-> 24,
   exclude_keywords |-> {<<"s", "p", "a", "m">>},
   dry_run |-> FALSE, do_like |-> TRUE, do_follow |-> TRUE,
   like_per_day |-> MaxCap, follow_per_day |-> MaxCap,
   micro_break_after |-> 0,
   sessions_enabled |-> FALSE,
   session_blocks |-> <<<<HHMM(23, 30), HHMM(6, 0)>>>>,
   night_off |-> <<HHMM(2, 0), HHMM(6, 0)>>,
   nqueries |-> NumQueries]

\* ------------------------------------------------------------------ state
VARIABLES
  st,          \* Settings, fixed by load_settings for the process lifetime
  feed,        \* the identifiers of the candidates the platform serves
  pc,          \* position of the single timeline in main / run_once / gather_for_query
  now,         \* run_once: the time of day read at the gate check; not read
               \* after line 382, and kept to the end of the pass only under
               \* sessions_enabled, where the gate looked at it (NoTime otherwise)
  seen_file,   \* the file at st.seen_path
  seen_ids,    \* run_once: the in-memory seen set of the pass
  counts,      \* run_once: counts["like"], counts["follow"]
  qi,          \* run_once: index of the query being gathered
  results,     \* gather_for_query: the current page (the list of its candidates)
  ti,          \* gather_for_query: index of the candidate in tweets
  cur,         \* gather_for_query: identifier of the accepted candidate (tid)
  like_left,   \* gather_for_query: like_left of the accepted candidate
  follow_left, \* gather_for_query: follow_left of the accepted candidate
  event,       \* what the last step did: calls made, outcome, sleeps
  attempted,   \* calls of act_like / act_follow made in this pass
  owed,        \* an attempted action made `attempted` a positive multiple of
               \* micro_break_after and no micro-break has followed yet
  everSeen,    \* identifiers added to a seen set in this or an earlier pass
  at,          \* the time of day at which the last step called act_like or
               \* act_follow; NoTime when it called neither
  sent,        \* the candidates (tid) act_like / act_follow was called for in
               \* this pass
  day,         \* the successful actions of the passes that have ended, per kind,
               \* summed up to one above the cap, in the runs that follow them
               \* (NoDay in the others)
  arg,         \* arguments of a function applied on its own
  ret          \* its result, <<>> before the call

vars ==
  <<st, feed, pc, now, seen_file, seen_ids, counts, qi, results, ti, cur, like_left,
    follow_left, event, attempted, owed, everSeen, at, sent, day, arg, ret>>

\* locals of gather_for_query's loop body, dead between two iterations
body == <<cur, like_left, follow_left>>
\* history of the pass
hist == <<attempted, owed, everSeen>>
\* state of the functions applied on their own
pure == <<arg, ret>>

\* no act_like / act_follow call yet in the pass
NoneSent == [like |-> {}, follow |-> {}]

\* the passes are not summed up
NoDay == [like |-> 0 - 1, follow |-> 0 - 1]

\* a step that calls neither act_like nor act_follow
NoCall == at' = NoTime /\ sent' = sent

\* the instants a call can be made at: the pass takes as long as its sleeps add
\* up to, so any time of day; followed where the gate is in force
Instants == IF st.sessions_enabled THEN Times ELSE {NoTime}

Ev(kind, id, out, sleeps) == [kind |-> kind, id |-> id, out |-> out, sleeps |-> sleeps]

\* ------------------------------------------------------------ persistence
MissingFile == [state |-> "missing", data |-> {}]

\* The file holds a JSON array; set(json.load(f)) reads it as the set of its
\* entries, so the file is kept as that set (seen_file.data).
\* set(json.load(f)), or the empty set when the file is missing or unparsable
LoadSeen(file) == IF file.state = "ok" THEN file.data ELSE {}

\* the file after json.dump(list(seen_ids), f) went through
Dumped(ids) == [state |-> "ok", data |-> ids]

\* ------------------------------------------------------------ the filters
\* checks 2-7 of the loop body on candidate t under settings s: "reject",
\* "accept", or "raise" when an attribute has a type the check cannot handle
ChecksWith(t, s) ==
  LET text == Strip(ReplaceNewlines(
                IF Truthy(t.full_text) THEN t.full_text.s
                ELSE IF Truthy(t.text) THEN t.text.s ELSE <<>>))
  IN IF text = <<>> \/ is_rt_text(text) \/ is_reply_text(text) THEN "reject"
     ELSE IF ~ok_keywords(text, s.exclude_keywords) THEN "reject"
     ELSE IF LangRaises(t.lang) THEN "raise"
     ELSE IF ~ok_lang(t.lang, s.languages) THEN "reject"
     ELSE IF ~ok_age(t.created_at, s.max_age_hours) THEN "reject"
     ELSE IF ~t.user.present
             \/ ~ok_author(t.user, s.min_followers, s.max_followers) THEN "reject"
     ELSE "accept"

\* the filter options of settings s
FilterOptions(s) ==
  <<s.exclude_keywords, s.languages, s.max_age_hours, s.min_followers, s.max_followers>>

\* ChecksWith under the filter options of BaseSettings, computed once per candidate
BaseVerdict == [id \in RunFeed \cup FilterFeed |-> ChecksWith(Tweet(id), BaseSettings)]

\* checks 2-7 under the settings of the run
Checks(t) ==
  IF FilterOptions(st) = FilterOptions(BaseSettings) /\ t.id.k = "str"
     /\ t.id.s \in DOMAIN BaseVerdict /\ t = Tweet(t.id.s)
  THEN BaseVerdict[t.id.s]
  ELSE ChecksWith(t, st)

\* ------------------------------------------------------------ the actions
\* a plausible slip: the dry flag not looked at
ActOutcomes_IgnoresDry(dry) == {"ok", "n/a", "rate", "err"}

\* what act_like / act_follow can return
ActOutcomes(dry) == IF dry THEN {"dry"} ELSE {"ok", "n/a", "rate", "err"}

\* lines 265-277, 283-295: the outcomes in which the client's like / follow
\* entry point was called (not Dry, and not Unavailable, where there is none)
ClientCalled(out) == out \in {"ok", "rate", "err"}

\* a plausible slip: every outcome counted
CountsAsSuccess_Any(out) == TRUE

\* res.startswith("like(ok)") / res.startswith("follow(ok)")
CountsAsSuccess(out) == out = "ok"

\* a plausible slip: the cadence sleep left out after the back-off
DispatchSleeps_BackOffOnly(out, kind) ==
  IF out = "rate" THEN <<"rate_limit">> ELSE <<kind>>

\* the sleeps of one dispatch: the back-off inside act_*, then the cadence interval
DispatchSleeps(out, kind) ==
  (IF out = "rate" THEN <<"rate_limit">> ELSE <<>>) \o <<kind>>

\* a plausible slip: the empty page handle does not end the while loop, which
\* goes over the page it had once more
NextQuery_SamePage ==
  /\ qi' = qi
  /\ pc' = "tweets"
  /\ results' = results
  /\ ti' = 1

\* gather_for_query returns: the query after qi, or the end of the for loop
NextQuery ==
  /\ qi' = qi + 1
  /\ pc' = IF qi + 1 > st.nqueries THEN "save" ELSE "search"
  /\ results' = <<>>
  /\ ti' = 0

\* a plausible slip: the fetch error is not caught and ends the pass
AfterFetchError_Propagates ==
  /\ qi' = qi
  /\ pc' = "sleep"
  /\ results' = <<>>
  /\ ti' = 0

\* `except Exception: return` (line 310) and `except Exception: break` (line 376)
AfterFetchError == NextQuery

\* a plausible slip: the seen test left out of line 320
SkipTweet_NoSeenTest(tid) == ~Truthy(tid)

\* line 320: `not tid or tid in seen_ids`
SkipTweet(tid) == ~Truthy(tid) \/ tid.s \in seen_ids

\* a plausible slip: the accepted candidate is not recorded
MarkSeen_Forgets(ids, tid) == ids

\* line 337: seen_ids.add(tid)
MarkSeen(ids, tid) == ids \cup {tid}

\* a plausible slip: `>= 0` for `> 0`
LikeAllowed_OffByOne == st.do_like /\ like_left >= 0

\* line 344
LikeAllowed == st.do_like /\ like_left > 0

\* a plausible slip: the follow dispatched without a look at its quota
FollowAllowed_NoQuota == st.do_follow

\* a plausible slip: one quota for both kinds
FollowAllowed_SharedQuota == st.do_follow /\ follow_left > 0 /\ like_left > 0

\* line 351
FollowAllowed == st.do_follow /\ follow_left > 0

\* line 352: str(user.id or user.id_str)
AuthorId(user) == Str(PyOr(user.id, user.id_str))

\* line 360-361: the micro-break test on the sum of the two counts
BreakDue ==
  LET total == counts.like + counts.follow
  IN st.micro_break_after > 0 /\ total > 0 /\ total % st.micro_break_after = 0

\* a plausible slip: the error raised inside run_once leaves main
AfterRaise_Uncaught == pc' = "done"

\* main, lines 432-435: what run_once raises is caught and logged, and main
\* goes on to its sleep
AfterRaise == pc' = "sleep"

\* a plausible slip: the gate lets every pass through
GateClosed_Never(t) == FALSE

\* line 382: the pass is refused at time of day t
GateClosed(t) ==
  st.sessions_enabled /\ ~within_blocks(t, st.session_blocks, st.night_off)

\* run_once, lines 381-385: the session gate
GateCheck ==
  /\ pc = "gate"
  /\ \E t \in Times :
       /\ now' = t
       /\ IF GateClosed(t)
          THEN /\ pc' = "sleep"
               /\ event' = Ev("gated", "", "", <<"gate_wait">>)
          ELSE /\ pc' = "open"
               /\ event' = Ev("active", "", "", <<>>)
  /\ NoCall
  /\ UNCHANGED <<st, feed, seen_file, seen_ids, counts, qi, results, ti, body, hist, day, pure>>

\* run_once, lines 387-409: cookies, queries, the seen set, the counters
OpenPass ==
  /\ pc = "open"
  /\ \E cookies \in {"ok", "raise"} :
       IF cookies = "raise"
       THEN /\ AfterRaise
            /\ event' = Ev("raise", "", "cookies", <<>>)
            /\ UNCHANGED <<seen_ids, counts, qi, attempted, owed>>
       ELSE IF st.nqueries = 0
       THEN /\ pc' = "sleep"
            /\ event' = Ev("no_queries", "", "", <<>>)
            /\ UNCHANGED <<seen_ids, counts, qi, attempted, owed>>
       ELSE /\ seen_ids' = LoadSeen(seen_file)
            /\ counts' = [like |-> 0, follow |-> 0]
            /\ qi' = 1
            /\ pc' = "search"
            /\ attempted' = 0
            /\ owed' = FALSE
            /\ event' = Ev("load", "", seen_file.state, <<>>)
  /\ now' = IF st.sessions_enabled THEN now ELSE NoTime
  /\ NoCall
  /\ UNCHANGED <<st, feed, seen_file, results, ti, body, everSeen, day, pure>>

\* gather_for_query, lines 306-313: the first fetch of query qi
Search ==
  /\ pc = "search"
  /\ \E r \in {"page", "empty", "rate", "error"} :
       CASE r = "page" ->
              /\ \E p \in Pages(feed) : results' = p
              /\ ti' = 1
              /\ pc' = "tweets"
              /\ qi' = qi
              /\ event' = Ev("search", "", r, <<>>)
         [] r = "empty" ->
              /\ NextQuery
              /\ event' = Ev("search", "", r, <<>>)
         [] OTHER ->
              /\ AfterFetchError
              /\ event' = Ev("search", "", r, <<>>)
  /\ NoCall
  /\ UNCHANGED <<st, feed, now, seen_file, seen_ids, counts, body, hist, day, pure>>

\* gather_for_query, lines 318-341: one candidate through the checks
HandleTweet ==
  /\ pc = "tweets"
  /\ ti <= Len(results)
  /\ LET t == Tweet(results[ti])
         tid == t.id
     IN IF SkipTweet(tid)
        THEN /\ ti' = ti + 1
             /\ pc' = "tweets"
             /\ event' = Ev("skip", Str(tid), "", <<>>)
             /\ UNCHANGED <<seen_ids, body, everSeen>>
        ELSE CASE Checks(t) = "reject" ->
                    /\ ti' = ti + 1
                    /\ pc' = "tweets"
                    /\ event' = Ev("eval", tid.s, "reject", <<>>)
                    /\ UNCHANGED <<seen_ids, body, everSeen>>
               [] Checks(t) = "raise" ->
                    /\ AfterRaise
                    /\ event' = Ev("raise", tid.s, "eval", <<>>)
                    /\ UNCHANGED <<seen_ids, ti, body, everSeen>>
               [] OTHER ->
                    /\ seen_ids' = MarkSeen(seen_ids, tid.s)
                    /\ everSeen' = everSeen \cup {tid.s}
                    /\ cur' = tid.s
                    /\ like_left' = st.like_per_day - counts.like
                    /\ follow_left' = st.follow_per_day - counts.follow
                    /\ pc' = "like"
                    /\ ti' = ti
                    /\ event' = Ev("eval", tid.s, "accept", <<>>)
  /\ NoCall
  /\ UNCHANGED <<st, feed, now, seen_file, counts, qi, results, attempted, owed, day, pure>>

\* an attempted action: the cumulative total and whether it reached a multiple
Attempt ==
  /\ attempted' = attempted + 1
  /\ owed' = (owed \/ (st.micro_break_after > 0
                        /\ (attempted + 1) % st.micro_break_after = 0))

\* gather_for_query, lines 343-348, with act_like
LikeStep ==
  /\ pc = "like"
  /\ IF LikeAllowed
     THEN \E out \in ActOutcomes(st.dry_run) :
            /\ counts' = IF CountsAsSuccess(out)
                          THEN [counts EXCEPT !.like = @ + 1] ELSE counts
            /\ event' = Ev("like", cur, out, DispatchSleeps(out, "like_interval"))
            /\ Attempt
            /\ at' \in Instants
            /\ sent' = [sent EXCEPT !.like = @ \cup {cur}]
     ELSE /\ event' = Ev("no_like", cur, "", <<>>)
          /\ NoCall
          /\ UNCHANGED <<counts, attempted, owed>>
  /\ pc' = "follow"
  /\ UNCHANGED <<st, feed, now, seen_file, seen_ids, qi, results, ti, body, everSeen,
                 day, pure>>

\* gather_for_query, lines 350-357, with act_follow
FollowStep ==
  /\ pc = "follow"
  /\ LET user == Tweet(cur).user
         uid == AuthorId(user)
     IN IF FollowAllowed /\ uid # ""
        THEN \E out \in ActOutcomes(st.dry_run) :
               /\ counts' = IF CountsAsSuccess(out)
                             THEN [counts EXCEPT !.follow = @ + 1] ELSE counts
               /\ event' = Ev("follow", uid, out, DispatchSleeps(out, "follow_interval"))
               /\ Attempt
               /\ at' \in Instants
               /\ sent' = [sent EXCEPT !.follow = @ \cup {cur}]
        ELSE /\ event' = Ev("no_follow", cur, "", <<>>)
             /\ NoCall
             /\ UNCHANGED <<counts, attempted, owed>>
  /\ pc' = "break"
  /\ UNCHANGED <<st, feed, now, seen_file, seen_ids, qi, results, ti, body, everSeen,
                 day, pure>>

\* gather_for_query, lines 359-364: the micro-break
BreakStep ==
  /\ pc = "break"
  /\ IF BreakDue
     THEN /\ event' = Ev("pause", "", "", <<"micro_break">>)
          /\ owed' = FALSE
     ELSE /\ event' = Ev("no_pause", "", "", <<>>)
          /\ owed' = owed
  /\ pc' = "tweets"
  /\ ti' = ti + 1
  /\ cur' = ""
  /\ like_left' = 0
  /\ follow_left' = 0
  /\ NoCall
  /\ UNCHANGED <<st, feed, now, seen_file, seen_ids, counts, qi, results,
                 attempted, everSeen, day, pure>>

\* gather_for_query, lines 366-376 and 313: the next page
NextPage ==
  /\ pc = "tweets"
  /\ ti > Len(results)
  /\ \E r \in {"page", "empty", "rate", "error"} :
       CASE r = "page" ->
              /\ \E p \in Pages(feed) : results' = p
              /\ ti' = 1
              /\ pc' = "tweets"
              /\ qi' = qi
              /\ event' = Ev("next", "", r, <<"page_delay">>)
         [] r = "rate" ->
              /\ results' = results
              /\ ti' = 1
              /\ pc' = "tweets"
              /\ qi' = qi
              /\ event' = Ev("next", "", r, <<"page_delay", "rate_limit">>)
         [] r = "empty" ->
              /\ NextQuery
              /\ event' = Ev("next", "", r, <<"page_delay">>)
         [] OTHER ->
              /\ AfterFetchError
              /\ event' = Ev("next", "", r, <<"page_delay">>)
  /\ NoCall
  /\ UNCHANGED <<st, feed, now, seen_file, seen_ids, counts, body, hist, day, pure>>

\* run_once, lines 414-421: the seen set written over the file
Save ==
  /\ pc = "save"
  /\ \E w \in {"ok", "open_fails", "dump_fails"} :
       /\ CASE w = "ok" ->
                 seen_file' = Dumped(seen_ids)
            [] w = "open_fails" -> seen_file' = seen_file
            [] OTHER -> seen_file' = [state |-> "unparsable", data |-> {}]
       /\ event' = Ev("save", "", w, <<>>)
  /\ pc' = "sleep"
  /\ NoCall
  /\ UNCHANGED <<st, feed, now, seen_ids, counts, qi, results, ti, body, hist, day, pure>>

\* main, lines 431-436: run_once has returned or raised; sleep, then again
MainSleep ==
  /\ pc = "sleep"
  /\ pc' = "gate"
  /\ event' = Ev("sleep", "", event.kind, <<"pass_interval">>)
  /\ now' = NoTime
  /\ seen_ids' = {}
  /\ counts' = [like |-> 0, follow |-> 0]
  /\ qi' = 0
  /\ results' = <<>>
  /\ ti' = 0
  /\ cur' = ""
  /\ like_left' = 0
  /\ follow_left' = 0
  /\ attempted' = 0
  /\ owed' = FALSE
  /\ at' = NoTime
  /\ sent' = NoneSent
  /\ day' = IF day = NoDay THEN NoDay
            ELSE [like |-> Min(day.like + counts.like, st.like_per_day + 1),
                  follow |-> Min(day.follow + counts.follow, st.follow_per_day + 1)]
  /\ UNCHANGED <<st, feed, seen_file, everSeen, pure>>

\* The configurations a run is checked under: BaseSettings with one group of
\* options changed at a time.
RunSettings ==
  {[BaseSettings EXCEPT !.like_per_day = c] : c \in (0 - 1)..MaxCap}
  \cup {[BaseSettings EXCEPT !.follow_per_day = c] : c \in (0 - 1)..MaxCap}
  \cup {[BaseSettings EXCEPT !.do_like = l, !.do_follow = f] : l, f \in BOOLEAN}
  \cup {[BaseSettings EXCEPT !.dry_run = TRUE]}
  \cup {[BaseSettings EXCEPT !.micro_break_after = n, !.like_per_day = c,
                               !.follow_per_day = c] :
           n \in 1..BreakAfter, c \in 1..MaxCap}
  \cup {[BaseSettings EXCEPT !.sessions_enabled = TRUE]}
  \cup {[BaseSettings EXCEPT !.nqueries = 0]}

InitRun(settings, feeds) ==
  /\ st \in settings
  /\ feed \in feeds
  /\ pc = "gate"
  /\ now = NoTime
  /\ seen_file = MissingFile
  /\ seen_ids = {}
  /\ counts = [like |-> 0, follow |-> 0]
  /\ qi = 0
  /\ results = <<>>
  /\ ti = 0
  /\ cur = ""
  /\ like_left = 0
  /\ follow_left = 0
  /\ event = Ev("start", "", "", <<>>)
  /\ attempted = 0
  /\ owed = FALSE
  /\ everSeen = {}
  /\ at = NoTime
  /\ sent = NoneSent
  /\ ret = <<>>

Init == InitRun(RunSettings, {RunFeed}) /\ day = NoDay /\ arg = <<>>

Next ==
  \/ GateCheck
  \/ OpenPass
  \/ Search
  \/ HandleTweet
  \/ LikeStep
  \/ FollowStep
  \/ BreakStep
  \/ NextPage
  \/ Save
  \/ MainSleep

Spec == Init /\ [][Next]_vars

\* the run loop under BaseSettings, over the candidates of FilterFeed
InitFilters == InitRun({BaseSettings}, FilterFeeds) /\ day = NoDay /\ arg = <<>>

SpecFilters == InitFilters /\ [][Next]_vars

\* ---- the run loop over several passes, with the successes of the passes summed
DayFeed == {"a", "b"}
DaySettings ==
  {[BaseSettings EXCEPT !.like_per_day = 1, !.follow_per_day = c] : c \in {0, 1}}

InitDay ==
  /\ InitRun(DaySettings, {DayFeed})
  /\ day = [like |-> 0, follow |-> 0]
  /\ arg = <<>>

SpecDay == InitDay /\ [][Next]_vars

\* ---- the run loop with its scheduling assumptions
\* the candidates and configurations of the runs checked for progress
LiveFeed == {"a", "f", "x"}
LiveSettings ==
  {BaseSettings, [BaseSettings EXCEPT !.sessions_enabled = TRUE],
   [BaseSettings EXCEPT !.nqueries = 0]}

InitLive == InitRun(LiveSettings, {LiveFeed}) /\ day = NoDay /\ arg = <<>>

\* the search client reports exhaustion: next() returns an empty page handle
Exhausts == NextPage /\ event'.out = "empty"

\* The single timeline always takes its next step (every awaited call and sleep
\* returns or raises), and a page handle that is asked for its next page again
\* and again reports exhaustion at some point.
SpecLive == InitLive /\ [][Next]_vars /\ WF_vars(Next) /\ SF_vars(Exhausts)

\* ------------------------------------------- within_blocks on its own
\* the window bounds and the windows a session configuration is drawn from
WindowTimes == {HHMM(6, 0), HHMM(12, 0), HHMM(23, 30)}
Windows == WindowTimes \X WindowTimes

\* the times of day within_blocks is applied to: Times, and the minutes next to
\* the window bounds
GateTimes ==
  Times \cup {HHMM(0, 0), HHMM(6, 1), HHMM(23, 29), HHMM(23, 59)}

InitGate ==
  /\ InitRun({BaseSettings}, {{}})
  /\ day = NoDay
  /\ arg \in [t : GateTimes, blocks : SeqsUpTo(Windows, MaxBlocks),
               night_off : {<<>>} \cup Windows]

\* within_blocks(now, blocks, night_off) applied to the drawn arguments
CallWithinBlocks ==
  /\ arg # <<>>
  /\ ret = <<>>
  /\ ret' = <<within_blocks(arg.t, arg.blocks, arg.night_off)>>
  /\ UNCHANGED <<st, feed, pc, now, seen_file, seen_ids, counts, qi, results, ti, body,
                 event, hist, at, sent, day, arg>>

SpecGate == InitGate /\ [][CallWithinBlocks]_vars

\* ------------------------------------------- the seen file on its own
\* largest number of identifiers in a seen set that is written and read back
MaxSeen == 3

\* identifiers as str, character by character, among them the characters that
\* JSON escapes or reads as punctuation
SeenPool ==
  {<<"a">>, <<"b">>, <<"a", "b">>, <<"\"">>, <<"\\">>, <<"a", "\"">>,
   <<"\\", "\"">>, <<",", " ">>, <<"]">>}

\* list(seen_ids): the identifiers of the set in the order the set yields them
SeenOrders == {q \in SeqsUpTo(SeenPool, MaxSeen) : NoRepeat(q)}

\* a plausible slip: the characters written as they are
json_escape_Raw(c) == <<c>>

\* json.dump on one character of a str
json_escape(c) ==
  CASE c = "\"" -> <<"\\", "\"">>
    [] c = "\\" -> <<"\\", "\\">>
    [] OTHER -> <<c>>

RECURSIVE json_string_body(_)
json_string_body(s) ==
  IF s = <<>> THEN <<>> ELSE json_escape(Head(s)) \o json_string_body(Tail(s))

\* json.dump of a str
json_string(s) == <<"\"">> \o json_string_body(s) \o <<"\"">>

RECURSIVE json_items(_)
json_items(list) ==
  IF list = <<>> THEN <<>>
  ELSE IF Len(list) = 1 THEN json_string(list[1])
  ELSE json_string(list[1]) \o <<",", " ">> \o json_items(Tail(list))

\* json.dump(list, f) of a list of str: the text written
json_dump(list) == <<"[">> \o json_items(list) \o <<"]">>

ParseError == [ok |-> FALSE]

RECURSIVE SkipSpace(_, _)
SkipSpace(text, i) ==
  IF i <= Len(text) /\ text[i] \in Whitespace THEN SkipSpace(text, i + 1) ELSE i

\* the characters of a JSON string from position i, up to its closing quote
RECURSIVE ReadString(_, _, _)
ReadString(text, i, acc) ==
  IF i > Len(text) THEN ParseError
  ELSE IF text[i] = "\"" THEN [ok |-> TRUE, val |-> acc, next |-> i + 1]
  ELSE IF text[i] = "\\"
       THEN IF i + 1 <= Len(text) /\ text[i + 1] \in {"\"", "\\"}
            THEN ReadString(text, i + 2, Append(acc, text[i + 1]))
            ELSE ParseError
  ELSE ReadString(text, i + 1, Append(acc, text[i]))

\* the items of a JSON array of strings from position i (after "[" or ",")
RECURSIVE ReadItems(_, _, _)
ReadItems(text, i, acc) ==
  LET j == SkipSpace(text, i)
  IN IF j > Len(text) \/ text[j] # "\"" THEN ParseError
     ELSE LET str == ReadString(text, j + 1, <<>>)
          IN IF ~str.ok THEN ParseError
             ELSE LET k == SkipSpace(text, str.next)
                  IN IF k > Len(text) THEN ParseError
                     ELSE IF text[k] = ","
                          THEN ReadItems(text, k + 1, Append(acc, str.val))
                     ELSE IF text[k] = "]"
                          THEN [ok |-> TRUE, val |-> Append(acc, str.val), next |-> k + 1]
                     ELSE ParseError

\* json.load(f) on a text that holds an array of strings, or fails to parse
json_load(text) ==
  LET i == SkipSpace(text, 1)
  IN IF i > Len(text) \/ text[i] # "[" THEN ParseError
     ELSE LET j == SkipSpace(text, i + 1)
              arr == IF j <= Len(text) /\ text[j] = "]"
                     THEN [ok |-> TRUE, val |-> <<>>, next |-> j + 1]
                     ELSE ReadItems(text, i + 1, <<>>)
          IN IF ~arr.ok THEN ParseError
             ELSE IF SkipSpace(text, arr.next) <= Len(text) THEN ParseError
             ELSE [ok |-> TRUE, val |-> arr.val]

\* the file at seen_path, by its text
NoFile == [exists |-> FALSE, text |-> <<>>]
FileWith(text) == [exists |-> TRUE, text |-> text]

\* lines 401-407: the seen set a pass starts from
seen_from_file(file) ==
  IF ~file.exists THEN {}
  ELSE LET loaded == json_load(file.text)
       IN IF loaded.ok THEN {loaded.val[i] : i \in 1..Len(loaded.val)} ELSE {}

\* files that were not written by the program: none, an empty one, and texts
\* that are no JSON
StartFiles ==
  {NoFile, FileWith(<<>>), FileWith(<<"[">>), FileWith(<<"[", "\"", "a">>),
   FileWith(<<"[", "\"", "a", "\"", ",", "]">>), FileWith(<<"a", "b">>)}

InitSeen ==
  /\ InitRun({BaseSettings}, {{}})
  /\ day = NoDay
  /\ arg \in [order : SeenOrders, file : StartFiles, written : {"no"}]

\* lines 415-419: the file opened for writing (truncated) and json.dump, which
\* writes it whole or fails part of the way; an open that fails leaves it as it was
PersistSeen ==
  /\ arg # <<>>
  /\ ret = <<>>
  /\ arg.written = "no"
  /\ LET text == json_dump(arg.order)
     IN \/ arg' = [arg EXCEPT !.file = FileWith(text), !.written = "whole"]
        \/ \E n \in 0..(Len(text) - 1) :
             arg' = [arg EXCEPT !.file = FileWith(SubSeq(text, 1, n)), !.written = "part"]
        \/ arg' = [arg EXCEPT !.written = "open_fails"]
  /\ UNCHANGED <<st, feed, pc, now, seen_file, seen_ids, counts, qi, results, ti, body,
                 event, hist, at, sent, day, ret>>

\* lines 401-407 applied to the file
LoadSeenFile ==
  /\ arg # <<>>
  /\ ret = <<>>
  /\ ret' = <<seen_from_file(arg.file)>>
  /\ UNCHANGED <<st, feed, pc, now, seen_file, seen_ids, counts, qi, results, ti, body,
                 event, hist, at, sent, day, arg>>

SpecSeen == InitSeen /\ [][PersistSeen \/ LoadSeenFile]_vars

\* =================================================================== claims

\* C1: within one pass, for each kind with a non-negative cap the count never
\* exceeds the cap, and act_like / act_follow is called only while
\* cap - count > 0 at the moment of the call.
C1_QuotaRespected ==
  [][/\ (st.like_per_day >= 0 => counts'.like <= st.like_per_day)
     /\ (st.follow_per_day >= 0 => counts'.follow <= st.follow_per_day)
     /\ (event'.kind = "like" => st.like_per_day - counts.like > 0)
     /\ (event'.kind = "follow" => st.follow_per_day - counts.follow > 0)]_vars

\* C1 witness: the like quota is used up and the like of an accepted candidate
\* is skipped
C1_Witness ==
  /\ event.kind = "no_like"
  /\ st.do_like
  /\ st.like_per_day > 0
  /\ counts.like = st.like_per_day

\* C2: the count of a kind goes up by exactly one on an Ok outcome of that kind
\* and is unchanged on Dry, RateLimited, Unavailable and Error; no other step of
\* the pass changes a count; after any outcome, RateLimited included, the loop
\* goes on through the body to the next candidate of the same page.
C2_CountOnlyOnOk ==
  [][/\ (event'.kind = "like" =>
           /\ counts'.like = counts.like + (IF event'.out = "ok" THEN 1 ELSE 0)
           /\ counts'.follow = counts.follow)
     /\ (event'.kind = "follow" =>
           /\ counts'.follow = counts.follow + (IF event'.out = "ok" THEN 1 ELSE 0)
           /\ counts'.like = counts.like)
     /\ (event'.kind \notin {"like", "follow", "load", "sleep"} => counts' = counts)
     /\ (event'.kind \in {"like", "follow"} /\ event'.out = "rate" =>
           pc' \in {"follow", "break"} /\ ti' = ti /\ results' = results)
     /\ (pc = "break" => pc' = "tweets" /\ ti' = ti + 1 /\ results' = results)]_vars

\* C2 witness: a third attempted action, a like that returned Ok and is the only
\* one counted: the two actions of the candidate before it failed and the loop
\* went on
C2_Witness ==
  /\ event.kind = "like"
  /\ event.out = "ok"
  /\ attempted = 3
  /\ counts = [like |-> 1, follow |-> 0]

\* C3 as stated: an identifier once added to a seen set is never again passed
\* to checks 2-7, in the same or in any later pass.
C3_NeverReevaluated ==
  [][event'.kind = "eval" => event'.id \notin everSeen]_vars

\* C3 amended: an identifier in the seen set of the running pass is not passed to
\* checks 2-7 and that set only grows until the pass ends; the set a pass starts
\* from is the content of the file when the file is readable, and empty otherwise
\* (so an identifier is skipped in a later pass only if a write carried it there).
C3_SeenSkippedInPass ==
  [][/\ (event'.kind = "eval" => event'.id \notin seen_ids)
     /\ (event'.kind \in {"like", "follow", "no_like", "no_follow"} => cur \in seen_ids)
     /\ (pc \notin {"open", "sleep"} => seen_ids \subseteq seen_ids')
     /\ (event'.kind = "load" =>
           seen_ids' = IF seen_file.state = "ok" THEN seen_file.data ELSE {})]_vars

\* C3 witness: a candidate that an earlier pass wrote to the file is skipped
C3_Witness ==
  /\ event.kind = "skip"
  /\ seen_file.state = "ok"
  /\ event.id \in seen_file.data

\* C4: with micro_break_after = N > 0, no positive multiple of N that the total
\* of attempted actions (successful or not) has reached is passed over: by the
\* time the loop moves on to the next candidate, and so before any further
\* action is attempted, a micro-break has followed it.
C4_PauseAtEveryMultiple == pc = "tweets" => ~owed

\* C5: a micro-break happens only when micro_break_after > 0 and an attempted
\* action has brought the total of attempted actions to a positive multiple of
\* it since the last micro-break: none for a candidate with no attempted
\* action, at most one per multiple reached, none at all with a threshold of 0.
C5_PauseOnlyAtMultiple ==
  [][event'.kind = "pause" => st.micro_break_after > 0 /\ owed]_vars

\* the window rule of SessionGate: inclusive bounds, start > end wraps midnight
LastMinute == 24 * 60 - 1
WindowSet(w) ==
  IF w[1] <= w[2] THEN w[1]..w[2] ELSE (w[1]..LastMinute) \cup (0..w[2])

\* SessionGate.eligible: night-off first, then no windows, then any window
Eligible(t, blocks, night_off) ==
  /\ night_off = <<>> \/ t \notin WindowSet(night_off)
  /\ blocks = <<>> \/ \E i \in 1..Len(blocks) : t \in WindowSet(blocks[i])

\* C6: within_blocks agrees with SessionGate.eligible on every drawn time and
\* configuration; the window 23:30-06:00 holds 23:45 and 02:00 and not 12:00.
C6_WithinBlocksIsEligible ==
  ret # <<>> =>
    /\ ret[1] = Eligible(arg.t, arg.blocks, arg.night_off)
    /\ (arg.night_off = <<>> /\ arg.blocks = <<<<HHMM(23, 30), HHMM(6, 0)>>>> =>
          /\ (arg.t \in {HHMM(23, 45), HHMM(2, 0)} => ret[1])
          /\ (arg.t = HHMM(12, 0) => ~ret[1]))

\* C6 witness: a time inside a session window and inside the night-off window,
\* refused
C6_Witness ==
  /\ ret = <<FALSE>>
  /\ arg.night_off = <<HHMM(23, 30), HHMM(6, 0)>>
  /\ arg.blocks = <<<<HHMM(12, 0), HHMM(6, 0)>>>>
  /\ arg.t = HHMM(2, 0)

\* C7 as stated: a pass is active only when SessionGate.eligible(now) holds.
C7_ActiveOnlyWhenEligible ==
  pc = "open" => Eligible(now, st.session_blocks, st.night_off)

\* C7 amended: with sessions_enabled, a gate check at an eligible time starts
\* the pass and one at any other time ends it at once with the 15 minute wait,
\* the file untouched, and the loop back at the gate check after main's sleep;
\* without sessions_enabled every gate check starts the pass.
C7_GateWhenSessionsEnabled ==
  [][/\ (pc = "gate" /\ st.sessions_enabled
           /\ Eligible(now', st.session_blocks, st.night_off) => pc' = "open")
     /\ (pc = "gate" /\ st.sessions_enabled
           /\ ~Eligible(now', st.session_blocks, st.night_off) =>
           /\ pc' = "sleep"
           /\ event' = Ev("gated", "", "", <<"gate_wait">>)
           /\ seen_file' = seen_file)
     /\ (pc = "gate" /\ ~st.sessions_enabled => pc' = "open")
     /\ (pc = "sleep" => pc' = "gate" /\ seen_file' = seen_file)]_vars

\* C7 witness: gated at 02:00, inside the session window 23:30-06:00 and inside
\* the night-off window
C7_Witness ==
  /\ event.kind = "gated"
  /\ pc = "sleep"
  /\ st.sessions_enabled
  /\ now = HHMM(2, 0)
  /\ now \in WindowSet(st.session_blocks[1])
  /\ now \in WindowSet(st.night_off)

\* C8: a candidate that reaches check 7 is accepted iff its followers count is
\* no integer or lies in [min_followers, max_followers]; with an integer outside
\* the bounds, 0 included, it is rejected and not marked seen.
C8_FollowersBoundsEnforced ==
  event.kind = "eval" /\ Tweet(event.id).user.present =>
    LET n == Tweet(event.id).user.followers_count
        inBounds == n.k # "int" \/ (st.min_followers <= n.v /\ n.v <= st.max_followers)
    IN /\ (event.out = "accept" => inBounds)
       /\ (~inBounds => event.out = "reject" /\ event.id \notin seen_ids)

\* C9: a rate-limit signal on a fetch, the first of a query or a later one, is
\* followed by the back-off sleep and leaves the loop on the same query with the
\* same page handle, to fetch again.
C9_RateLimitRetriesFetch ==
  [][event'.kind \in {"search", "next"} /\ event'.out = "rate" =>
       /\ \E i \in 1..Len(event'.sleeps) : event'.sleeps[i] = "rate_limit"
       /\ qi' = qi
       /\ pc' \in {"search", "tweets"}
       /\ results' = results]_vars

\* C10: an error other than a rate limit on a fetch of query qi ends that query
\* only: the pass goes on with query qi + 1, or with the write of the seen set
\* after the last query, its seen set and counts as they were; queries are taken
\* one by one in list order, and the write is reached only after the last one.
C10_FetchErrorEndsQueryOnly ==
  [][/\ (event'.kind \in {"search", "next"} /\ event'.out = "error" =>
           /\ qi' = qi + 1
           /\ pc' = IF qi = st.nqueries THEN "save" ELSE "search"
           /\ seen_ids' = seen_ids
           /\ counts' = counts)
     /\ (event'.kind = "search" => qi \in 1..st.nqueries)
     /\ (qi' # qi => qi' = qi + 1 \/ event'.kind \in {"load", "sleep"})
     /\ (event'.kind = "load" => qi' = 1)
     /\ (pc' = "save" => qi' = st.nqueries + 1)
     /\ (pc = "save" => event'.kind = "save" /\ pc' = "sleep")]_vars

\* C10 witness: the second query is about to be searched after a fetch of the
\* first one failed
C10_Witness ==
  /\ pc = "search"
  /\ qi = 2
  /\ event.kind \in {"search", "next"}
  /\ event.out = "error"

\* how a pass can end: refused by the gate, by an error raised out of run_once,
\* with no queries, or after the write of the seen set
PassEnded == event.kind \in {"gated", "raise", "no_queries", "save"}
MainSlept == event.kind = "sleep"
GateChecked == event.kind \in {"gated", "active"}

\* C11: main never stops: however a pass ends (completed, gated, no queries,
\* or an error raised out of run_once), main sleeps next, the sleep is followed
\* by a new gate check, and so a gate check happens again and again.
C11_MainNeverStops ==
  /\ PassEnded ~> MainSlept
  /\ MainSlept ~> GateChecked
  /\ []<>GateChecked

\* C11 witness: the gate check is reached again after a pass that ended with an
\* error raised out of run_once
C11_Witness ==
  /\ pc = "gate"
  /\ event.kind = "sleep"
  /\ event.out = "raise"

\* C19: the pagination of query k ends: once the pass is at query k it gets to
\* another query, to the write of the seen set or to main's sleep; a rate-limit
\* signal on next() keeps the page handle and the query, so that the next fetch
\* asks the same handle again.
C19_PaginationTerminates ==
  /\ \A k \in 1..NumQueries :
        (pc \in {"search", "tweets", "like", "follow", "break"} /\ qi = k)
          ~> (pc \in {"save", "sleep"} \/ qi # k)
  /\ [][event'.kind = "next" /\ event'.out = "rate" =>
          qi' = qi /\ results' = results /\ pc' = "tweets" /\ ti' = 1]_vars

\* C19 witness: the first query, with a page gone over and a candidate accepted,
\* has ended on the exhaustion signal and the pass is at the second query
C19_Witness ==
  /\ event.kind = "next"
  /\ event.out = "empty"
  /\ seen_ids # {}
  /\ qi = 2
  /\ pc = "search"

\* C12 as stated: over the passes of one process the successful actions of a
\* kind never add up to more than the cap of that kind.
C12_DailyCapOverPasses ==
  day # NoDay =>
    /\ day.like + counts.like <= st.like_per_day
    /\ day.follow + counts.follow <= st.follow_per_day

\* C12 amended: the cap bounds the successful actions of one pass. Every pass
\* starts its counts from zero whatever the earlier passes did, the counts of
\* the pass stay within the caps, and a like is dispatched whenever the count
\* of the pass is below the cap, the successes of earlier passes notwithstanding.
C12_CapPerPass ==
  [][/\ (event'.kind = "load" => counts' = [like |-> 0, follow |-> 0])
     /\ counts'.like <= st.like_per_day
     /\ counts'.follow <= st.follow_per_day
     /\ (pc = "like" /\ st.do_like /\ counts.like < st.like_per_day =>
           event'.kind = "like")
     /\ (event'.kind = "sleep" /\ day # NoDay =>
           /\ day'.like = Min(day.like + counts.like, st.like_per_day + 1)
           /\ day'.follow = Min(day.follow + counts.follow, st.follow_per_day + 1))]_vars

\* C12 witness: a like succeeds in a pass that follows passes whose successful
\* likes already added up to the cap
C12_Witness ==
  /\ event.kind = "like"
  /\ event.out = "ok"
  /\ day # NoDay
  /\ day.like >= st.like_per_day

\* C13 as stated: with sessions_enabled every act_like / act_follow call is made
\* at an instant that SessionGate.eligible accepts.
C13_DispatchOnlyWhenEligible ==
  st.sessions_enabled /\ at # NoTime =>
    Eligible(at, st.session_blocks, st.night_off)

\* C13 amended: with sessions_enabled every act_like / act_follow call is made
\* in a pass whose gate check, its only one, read an eligible instant; the
\* instant of the call itself is any time of day.
C13_DispatchOnlyInAdmittedPass ==
  /\ (st.sessions_enabled /\ event.kind \in {"like", "follow"} =>
        /\ at \in Times
        /\ now \in Times
        /\ Eligible(now, st.session_blocks, st.night_off))
  /\ (st.sessions_enabled /\ pc \notin {"gate", "sleep"} => now \in Times)

\* C13 witness: a like dispatched at 02:00, inside the night-off window, in a
\* pass that the gate admitted at 23:45
C13_Witness ==
  /\ st.sessions_enabled
  /\ event.kind = "like"
  /\ now = HHMM(23, 45)
  /\ at = HHMM(2, 0)
  /\ ~Eligible(at, st.session_blocks, st.night_off)

\* C20: within one pass act_like is called at most once and act_follow at most
\* once for a candidate identifier: no call is made for a candidate one was made
\* for earlier in the pass, whichever query or page returns it again.
C20_AtMostOneDispatch ==
  [][/\ (event'.kind = "like" => cur \notin sent.like /\ sent'.like = sent.like \cup {cur})
     /\ (event'.kind = "follow" =>
           cur \notin sent.follow /\ sent'.follow = sent.follow \cup {cur})
     /\ (event'.kind \notin {"like", "follow", "sleep"} => sent' = sent)
     /\ (event'.kind = "skip" => pc' = "tweets" /\ ti' = ti + 1)]_vars

\* C20 witness: the second query returns a candidate that was liked and followed
\* earlier in the pass, and it is skipped
C20_Witness ==
  /\ event.kind = "skip"
  /\ qi = 2
  /\ event.id \in sent.like
  /\ event.id \in sent.follow

\* C14: every act_like call, whatever it returns, is followed in the same loop
\* iteration by the like cadence sleep, after the back-off when the outcome is
\* RateLimited, and every act_follow call by the follow cadence sleep; so a
\* cadence sleep of the kind lies between two calls of one kind.
C14_CadenceAfterDispatch ==
  [][/\ (event'.kind = "like" =>
           event'.sleeps = (IF event'.out = "rate" THEN <<"rate_limit">> ELSE <<>>)
                             \o <<"like_interval">>)
     /\ (event'.kind = "follow" =>
           event'.sleeps = (IF event'.out = "rate" THEN <<"rate_limit">> ELSE <<>>)
                             \o <<"follow_interval">>)
     /\ (event'.kind \in {"no_like", "no_follow"} => event'.sleeps = <<>>)]_vars

\* C14 witness: the second like of the pass, RateLimited, with its back-off and
\* its cadence sleep, after a first like that succeeded
C14_Witness ==
  /\ event.kind = "like"
  /\ event.out = "rate"
  /\ event.sleeps = <<"rate_limit", "like_interval">>
  /\ counts.like = 1
  /\ Cardinality(sent.like) = 2

\* C15: the like and the follow of an accepted candidate are decided each on its
\* own quota: a follow is dispatched iff follow is enabled, the follow count is
\* below its cap and the author id is non-empty, whatever the like quota; a like
\* iff like is enabled and the like count is below its cap, whatever the follow
\* quota.
C15_QuotasIndependent ==
  [][/\ (pc = "follow" =>
           (event'.kind = "follow"
              <=> /\ st.do_follow
                  /\ counts.follow < st.follow_per_day
                  /\ AuthorId(Tweet(cur).user) # ""))
     /\ (pc = "like" =>
           (event'.kind = "like" <=> st.do_like /\ counts.like < st.like_per_day))
     /\ (pc = "like" => pc' = "follow")]_vars

\* C15 witness: with the like quota used up, a candidate is not liked and its
\* author is followed
C15_Witness ==
  /\ event.kind = "follow"
  /\ st.do_like
  /\ st.like_per_day > 0
  /\ counts.like = st.like_per_day
  /\ counts.follow <= st.follow_per_day
  /\ cur \notin sent.like
  /\ cur \in sent.follow

\* C18: with dry_run every act_like / act_follow call returns Dry without a call
\* of the client's like or follow entry point and without a back-off, and both
\* counts are zero in every state of the run.
C18_DryRunNoCallNoCount ==
  st.dry_run =>
    /\ counts = [like |-> 0, follow |-> 0]
    /\ (event.kind \in {"like", "follow"} =>
          /\ event.out = "dry"
          /\ ~ClientCalled(event.out)
          /\ event.sleeps \in {<<"like_interval">>, <<"follow_interval">>})

\* C18 witness: a dry run in which two candidates have been through act_like and
\* act_follow, all four Dry
C18_Witness ==
  /\ st.dry_run
  /\ event.kind = "follow"
  /\ event.out = "dry"
  /\ attempted = 4
  /\ counts = [like |-> 0, follow |-> 0]

\* C17: the seen set of a pass changes only when a candidate clears checks 2-7:
\* the candidate is added in that step, before act_like or act_follow is called
\* for it, and no later step of the pass removes it, whatever the calls return
\* and whether or not they are made; a rejected candidate (among them the ones
\* whose text starts with "RT @", "QT @" or "@" and the one in a language that
\* is not allowed) is not added and no call is made for it.
C17_SeenChangesOnAcceptance ==
  [][/\ (event'.kind = "eval" /\ event'.out = "accept" =>
           /\ seen_ids' = seen_ids \cup {event'.id}
           /\ cur' = event'.id
           /\ pc' = "like"
           /\ sent' = sent)
     /\ (event'.kind = "eval" /\ event'.out = "reject" =>
           /\ seen_ids' = seen_ids
           /\ event'.id \notin seen_ids'
           /\ pc' = "tweets"
           /\ ti' = ti + 1
           /\ sent' = sent)
     /\ (event'.kind = "eval" /\ event'.id \in {"d", "e", "g", "h"} =>
           event'.out = "reject")
     /\ (event'.kind \in {"like", "follow", "no_like", "no_follow"} =>
           cur \in seen_ids /\ seen_ids' = seen_ids)
     /\ (event'.kind \notin {"eval", "load", "sleep"} => seen_ids' = seen_ids)
     /\ (sent'.like \cup sent'.follow) \subseteq seen_ids']_vars

\* C17 witness: the candidate with the text "QT @x hello" has just been
\* rejected and is not in the seen set, which holds the candidate accepted
\* before it, whose like and follow both failed
C17_Witness ==
  /\ event.kind = "eval"
  /\ event.id = "g"
  /\ event.out = "reject"
  /\ seen_ids = {"a"}
  /\ sent = [like |-> {"a"}, follow |-> {"a"}]
  /\ counts = [like |-> 0, follow |-> 0]

\* C16: a seen set written whole and then loaded is the set of the identifiers
\* that were written, whatever the order the set was listed in and whatever
\* characters they hold; a file that is missing, was never valid JSON, or was
\* left cut short by a failed write loads as the empty set.
C16_SeenRoundTrip ==
  ret # <<>> /\ "written" \in DOMAIN arg =>
    /\ (arg.written = "whole" =>
          ret[1] = {arg.order[i] : i \in 1..Len(arg.order)})
    /\ (arg.written \in {"no", "part", "open_fails"} => ret[1] = {})
    /\ (arg.written = "whole" =>
          LET n == Len(arg.order)
              reversed == [i \in 1..n |-> arg.order[n + 1 - i]]
          IN seen_from_file(FileWith(json_dump(reversed))) = ret[1])

\* C16 witness: three identifiers, one of them with a quote and a backslash,
\* written whole and read back
C16_Witness ==
  /\ ret # <<>>
  /\ "written" \in DOMAIN arg
  /\ arg.written = "whole"
  /\ Len(arg.order) = 3
  /\ <<"\\", "\"">> \in ret[1]
  /\ Cardinality(ret[1]) = 3

====
